---------------------------- MODULE Spec2Model ----------------------------
(***************************************************************************)
(* A model of src/app.py: the Flask handlers process_pdf (/process),       *)
(* split_final (/split-final) and download (/download/<id>), the upload    *)
(* directory they share, and the FileRecord table.                         *)
(*                                                                         *)
(* A PDF file is modelled by what the handlers ask of it: whether the PDF  *)
(* libraries can open and save it, what page.get("/Contents") yields for   *)
(* each page, and the embedded images of each page.  Library calls either  *)
(* return or raise; an exception that no handler code catches ends the     *)
(* request with status 500.                                                *)
(***************************************************************************)
EXTENDS Integers, Sequences, FiniteSets, TLC

\* ------------------------------------------------------------- bounds
NumReqs == 2
MaxPages == 2
MaxWidth == 24
MaxHeight == 2
MaxDpi == 222

\* --------------------------------------------------- program constants
DPI_THRESHOLD == 200
TARGET_DPI == 150
JPEG_QUALITY == 85

\* Python's None where a string may stand, and an unbound local where a
\* document may stand
None == "None"
Unbound == [bound |-> FALSE]
\* no info["dpi"]; no further image
NoDpi == <<>>
NoPos == <<>>

\* ------------------------------------------------ IEEE-754 arithmetic
(***************************************************************************)
(* TARGET_DPI / dpi is Python's true division of two ints and              *)
(* image.width * factor a product of two doubles: each result is rounded   *)
(* to 53 significant bits, ties to even, and int() truncates.  A positive  *)
(* double is held as [m, scale]: m = <<top, l1, l2, l3>> are the limbs     *)
(* (base 2^16, most significant first, top unbounded) of an integer M, and *)
(* the value is M * 2^-scale.  The operators are exact for operands below  *)
(* 2^14, which keeps every intermediate value under 2^31.                  *)
(***************************************************************************)
MantissaBits == 53

Base == 2 ^ 16

RECURSIVE BitLen(_)
BitLen(n) == IF n = 0 THEN 0 ELSE 1 + BitLen(n \div 2)

\* propagate the carries of four limbs towards the top one
Carry(m) ==
    LET l3 == m[4]
        l2 == m[3] + l3 \div Base
        l1 == m[2] + l2 \div Base
        top == m[1] + l1 \div Base
    IN  <<top, l1 % Base, l2 % Base, l3 % Base>>

\* the number of zero bits of n/d (0 < n < d) after the binary point
RECURSIVE LeadingZeros(_, _)
LeadingZeros(n, d) == IF 2 * n >= d THEN 0 ELSE 1 + LeadingZeros(2 * n, d)

\* n / d for ints 0 < n < d, correctly rounded: the first 53 significant
\* bits of the quotient by long division, then the remainder decides
FloatDiv(n, d) ==
    LET z == LeadingZeros(n, d)
        n0 == n * 2 ^ (z + 5)
        top == n0 \div d
        r0 == n0 % d
        l1 == (r0 * Base) \div d
        r1 == (r0 * Base) % d
        l2 == (r1 * Base) \div d
        r2 == (r1 * Base) % d
        l3 == (r2 * Base) \div d
        r3 == (r2 * Base) % d
        up == 2 * r3 > d \/ (2 * r3 = d /\ l3 % 2 = 1)
    IN  [m |-> Carry(<<top, l1, l2, l3 + (IF up THEN 1 ELSE 0)>>),
         scale |-> z + MantissaBits]

\* w * f for an int w >= 1 (exact as a double) and a double f: the exact
\* product, then its bits below the 53rd are rounded away
FloatMul(w, f) ==
    LET exact == Carry(<<f.m[1] * w, f.m[2] * w, f.m[3] * w, f.m[4] * w>>)
        t == BitLen(exact[1]) + 48 - MantissaBits
        low == exact[4] % 2 ^ t
        keep == exact[4] \div 2 ^ t
        up == t > 0 /\ (2 * low > 2 ^ t \/ (2 * low = 2 ^ t /\ keep % 2 = 1))
    IN  [m |-> Carry(<<exact[1], exact[2], exact[3],
                       (keep + (IF up THEN 1 ELSE 0)) * 2 ^ t>>),
         scale |-> f.scale]

\* int(f) for a double f >= 0 of scale >= 48: truncation
FloatToInt(f) == f.m[1] \div 2 ^ (f.scale - 48)
\* ------------------------------------------------------------ PDF files
(***************************************************************************)
(* An embedded image as PIL sees it after doc.extract_image(xref):         *)
(* mode, size and info["dpi"] (NoDpi when the file declares none), and     *)
(* whether extract_image and Image.open succeed on it.  enc is the         *)
(* encoding of the stream the document holds under xref: "orig" until      *)
(* doc.update_image replaces it.                                           *)
(***************************************************************************)
Img(xref, mode, dpi, width, height, decodes) ==
    [xref |-> xref, mode |-> mode, dpi |-> dpi, width |-> width,
     height |-> height, decodes |-> decodes, enc |-> "orig", quality |-> None]

Modes == {"1", "L", "RGB", "RGBA"}

\* a page: images is page.get_images(full=True), and contents is what
\* page.get("/Contents") gives: None (no key), "empty" (an object that is
\* false), "stream" (an object that is true), or "raises" (an exception)

Page(contents, images) == [contents |-> contents, images |-> images]

TextPage == Page("stream", <<>>)
EmptyPage == Page("empty", <<>>)
BlankPage == Page(None, <<>>)
ScanPage ==
    Page(None, <<Img(11, "1", <<150, 150>>, 40, 30, TRUE),
                 Img(12, "L", <<300, 300>>, 40, 30, TRUE)>>)
ColorPage == Page(None, <<Img(13, "RGB", <<600, 600>>, 80, 60, TRUE)>>)
BrokenPage == Page("raises", <<Img(12, "L", <<300, 300>>, 40, 30, TRUE)>>)
BadImagePage ==
    Page(None, <<Img(14, "L", NoDpi, 40, 30, FALSE),
                 Img(15, "RGB", NoDpi, 40, 30, TRUE)>>)
PageKinds ==
    {TextPage, EmptyPage, BlankPage, ScanPage, ColorPage, BrokenPage,
     BadImagePage}

\* damage: "none"; "repairable" (pikepdf.open raises, MuPDF, poppler and
\* pypdf repair the file); "fatal" (no library opens it).
\* unsavable: pdf.save / doc.save raise.
Pdf(damage, unsavable, pages) ==
    [damage |-> damage, unsavable |-> unsavable, pages |-> pages]

RECURSIVE SeqsUpTo(_, _)
SeqsUpTo(S, n) ==
    IF n = 0 THEN {<<>>}
    ELSE LET shorter == SeqsUpTo(S, n - 1)
         IN  shorter \cup {Append(s, x) : s \in shorter, x \in S}

\* the documents of a compress run
Documents ==
    {Pdf(dm, us, ps) : dm \in {"none", "repairable", "fatal"},
                       us \in BOOLEAN, ps \in SeqsUpTo(PageKinds, MaxPages)}

\* one-page scans holding one image: the inputs of the per-image transform
Widths == (1..MaxWidth) \cup {3000}
Heights == (1..MaxHeight) \cup {2400}
Dpis == {NoDpi} \cup {<<d, d>> : d \in {72, 150, 300, 600} \cup (199..MaxDpi)}
ImageDocuments ==
    {Pdf("none", FALSE, <<Page(None, <<Img(1, mo, dp, w, h, TRUE)>>)>>) :
        mo \in Modes, dp \in Dpis, w \in Widths, h \in Heights}

\* the uploads of the concurrent requests
VectorDoc == Pdf("none", FALSE, <<TextPage>>)
ScanDoc == Pdf("none", FALSE, <<ScanPage>>)
TornDoc == Pdf("fatal", FALSE, <<BlankPage>>)
SampleDocuments == {VectorDoc, ScanDoc, TornDoc}

\* a file name is a sequence of pieces, so that str.replace can act on it
Names == {<<"a", ".pdf">>, <<"b", ".pdf">>}

\* str.replace(old, new): every occurrence
Replace(name, old, new) ==
    [i \in DOMAIN name |-> IF name[i] = old THEN new ELSE name[i]]

Upload(name, content) == [filename |-> name, content |-> content]

Operations == {"split", "convert", "compress", "rotate"}

Reqs == 1..NumReqs
\* ------------------------------------------------------- classification
\* a variant: `is not None` in place of the truth test
TruthyNotNone(contents) == contents # None

\* bool(page.get("/Contents"))
Truthy(contents) == contents = "stream"

\* any(page.get("/Contents") for page in pdf.pages): the pages are asked
\* in order and the first true one ends the search: "True", "False", or
\* "raises" when a page raises before that
RECURSIVE AnyContents(_, _)
AnyContents(pages, i) ==
    IF i > Len(pages) THEN "False"
    ELSE IF pages[i].contents = "raises" THEN "raises"
    ELSE IF Truthy(pages[i].contents) THEN "True"
    ELSE AnyContents(pages, i + 1)

\* the body of the try: pikepdf.open, then any(...)
Inspect(content) ==
    IF content.damage # "none" THEN "raises" ELSE AnyContents(content.pages, 1)

\* a variant: the except clause defaults to True
HasVectorDefaultTrue(content) ==
    IF Inspect(content) = "raises" THEN TRUE ELSE Inspect(content) = "True"

\* has_vector after the try / except
HasVector(content) ==
    IF Inspect(content) = "raises" THEN FALSE ELSE Inspect(content) = "True"

\* ------------------------------------------------------ image transform
\* a variant: grayscale sent to the bilevel encoder
CompressionGrayBilevel(mode) ==
    IF mode = "1" THEN "CCITT" ELSE IF mode = "L" THEN "CCITT" ELSE "JPEG"

\* the if / elif / else on image.mode
Compression(mode) ==
    IF mode = "1" THEN "CCITT" ELSE IF mode = "L" THEN "JPEG" ELSE "JPEG"

\* image.info.get("dpi", (TARGET_DPI, TARGET_DPI))[0]
EffectiveDpi(image) ==
    IF image.dpi = NoDpi THEN TARGET_DPI ELSE image.dpi[1]

\* int(size * factor), factor = TARGET_DPI / dpi, for dpi > DPI_THRESHOLD
Scaled(size, dpi) == FloatToInt(FloatMul(size, FloatDiv(TARGET_DPI, dpi)))

\* the size the image is saved at: <<new_width, new_height>> when resized
NewSize(image) ==
    IF EffectiveDpi(image) > DPI_THRESHOLD
    THEN <<Scaled(image.width, EffectiveDpi(image)),
           Scaled(image.height, EffectiveDpi(image))>>
    ELSE <<image.width, image.height>>

\* the exception the loop body raises on an image, or None
\* (extract_image / Image.open on an undecodable stream; Image.resize
\* refuses an empty size; the JPEG encoder refuses modes with alpha)
ImageError(image) ==
    IF ~image.decodes THEN "Image.open"
    ELSE IF EffectiveDpi(image) > DPI_THRESHOLD
            /\ (NewSize(image)[1] < 1 \/ NewSize(image)[2] < 1)
    THEN "Image.resize"
    ELSE IF Compression(image.mode) = "JPEG" /\ image.mode = "RGBA"
    THEN "Image.save"
    ELSE None

\* the stream image.save writes: it declares no resolution
Reencoded(image) ==
    [xref |-> image.xref, mode |-> image.mode, dpi |-> NoDpi,
     width |-> NewSize(image)[1], height |-> NewSize(image)[2],
     decodes |-> TRUE, enc |-> Compression(image.mode),
     quality |-> IF Compression(image.mode) = "JPEG"
                 THEN JPEG_QUALITY ELSE None]

\* --------------------------------------------------------- the loops
\* the first position <<page_index, img_index>> at or after page p that
\* holds an image, or NoPos
RECURSIVE FirstFrom(_, _)
FirstFrom(pages, p) ==
    IF p >= Len(pages) THEN NoPos
    ELSE IF Len(pages[p + 1].images) > 0 THEN <<p, 0>>
    ELSE FirstFrom(pages, p + 1)

\* a variant: the inner loop stops after the first image of a page
NextPosFirstImageOnly(pages, p, i) == FirstFrom(pages, p + 1)

\* the position the two nested for loops reach after <<p, i>>
NextPos(pages, p, i) ==
    IF i + 1 < Len(pages[p + 1].images) THEN <<p, i + 1>>
    ELSE FirstFrom(pages, p + 1)

\* the images of a file, and fitz.open's working copy: its pages and the
\* stream it holds under each xref
Images(content) ==
    UNION {{content.pages[p].images[i] : i \in DOMAIN content.pages[p].images} :
              p \in DOMAIN content.pages}

Xrefs(content) == {image.xref : image \in Images(content)}

WorkingCopy(content) ==
    [src |-> content,
     streams |-> [x \in Xrefs(content) |->
                    CHOOSE image \in Images(content) : image.xref = x]]

\* ---------------------------------------------------------------- state
NoFile == [damage |-> "absent"]
NoUpload == [filename |-> <<>>]
NoBytes == [format |-> "None"]
NoResponse == [status |-> 0]

VARIABLES
    fs,         \* PDF_DIR: file name -> the content saved there, or NoFile
    previews,   \* PREVIEW_DIR: file name -> the number of page PNGs there
    records,    \* the FileRecord table, in id order
    pc,         \* each request's position in its handler
    frame,      \* each request's local variables
    response,   \* each request's response, once it has returned
    caught,     \* whether the request's except clause ran
    trace       \* the <<page_index, img_index, xref>> updated so far

vars == <<fs, previews, records, pc, frame, response, caught, trace>>

\* the locals of a handler; an int or bool local that is not yet bound
\* holds 0 or FALSE
EmptyFrame ==
    [file |-> NoUpload, file_id |-> 0, operation |-> None,
     output_filename |-> <<>>, output_bytes |-> NoBytes,
     has_vector |-> FALSE, pdf |-> Unbound, doc |-> Unbound,
     page_index |-> 0, img_index |-> 0, compression |-> None, dpi |-> 0,
     new_width |-> 0, new_height |-> 0]

Init ==
    /\ fs = [n \in Names |-> NoFile]
    /\ previews = [n \in Names |-> 0]
    /\ records = <<>>
    /\ pc = [r \in Reqs |-> "idle"]
    /\ frame = [r \in Reqs |-> EmptyFrame]
    /\ response = [r \in Reqs |-> NoResponse]
    /\ caught = [r \in Reqs |-> FALSE]
    /\ trace = [r \in Reqs |-> <<>>]

\* requests are taken up in the order of their numbers
MayStart(r) == pc[r] = "idle" /\ \A q \in Reqs : q < r => pc[q] # "idle"

\* the handler returns `resp`
Return(r, resp) ==
    /\ pc' = [pc EXCEPT ![r] = "done"]
    /\ response' = [response EXCEPT ![r] = resp]

\* a variant: the record is committed on the way out of a failing request
RaiseAfterCommit(r, error) ==
    /\ Return(r, [status |-> 500, error |-> error])
    /\ records' = Append(records,
                         [id |-> Len(records) + 1,
                          filename |-> frame[r].output_filename,
                          operation |-> frame[r].operation,
                          file_data |-> frame[r].output_bytes])

\* an exception leaves the handler: Flask answers 500, nothing is stored
Raise(r, error) ==
    /\ Return(r, [status |-> 500, error |-> error])
    /\ records' = records

\* a variant: the newest record is updated in place
CommitInPlace(filename, operation, file_data) ==
    IF records = <<>>
    THEN <<[id |-> 1, filename |-> filename, operation |-> operation,
            file_data |-> file_data]>>
    ELSE [records EXCEPT ![Len(records)] =
             [id |-> Len(records), filename |-> filename,
              operation |-> operation, file_data |-> file_data]]

\* db.session.add(record); db.session.commit(): the next id
Commit(filename, operation, file_data) ==
    Append(records, [id |-> Len(records) + 1, filename |-> filename,
                     operation |-> operation, file_data |-> file_data])

Max(a, b) == IF a > b THEN a ELSE b

\* ------------------------------------------------- process_pdf (/process)
\* lines 58-65: the request's file and operation; file.save(pdf_path)
Receive(r, files, operations) ==
    /\ MayStart(r)
    /\ \E file \in files \cup {NoUpload}, operation \in operations :
        IF file = NoUpload
        THEN /\ Return(r, [status |-> 400, text |-> "No file uploaded"])
             /\ UNCHANGED <<fs, frame>>
        ELSE /\ fs' = [fs EXCEPT ![file.filename] = file.content]
             /\ frame' = [frame EXCEPT ![r].file = file,
                                       ![r].operation = operation]
             /\ pc' = [pc EXCEPT ![r] =
                          IF operation \in {"split", "convert", "compress"}
                          THEN operation ELSE "invalid"]
             /\ UNCHANGED response
    /\ UNCHANGED <<previews, records, caught, trace>>

\* lines 71-81: render the pages, save one PNG per page, answer the preview
Split(r) ==
    /\ pc[r] = "split"
    /\ LET name == frame[r].file.filename
           content == fs[name]
       IN  IF content.damage = "fatal"
           THEN /\ Raise(r, "convert_from_path")
                /\ UNCHANGED previews
           ELSE /\ previews' = [previews EXCEPT ![name] =
                                   Max(@, Len(content.pages))]
                /\ Return(r, [status |-> 200, template |-> "preview.html",
                              pdf_name |-> name,
                              images |-> Len(content.pages)])
                /\ UNCHANGED records
    /\ UNCHANGED <<fs, frame, caught, trace>>

\* lines 84-96: OCR every page into a Word document
Convert(r) ==
    /\ pc[r] = "convert"
    /\ LET name == frame[r].file.filename
           content == fs[name]
       IN  IF content.damage = "fatal"
           THEN /\ Raise(r, "convert_from_path")
                /\ UNCHANGED frame
           ELSE /\ frame' = [frame EXCEPT
                       ![r].output_filename = Replace(name, ".pdf", ".docx"),
                       ![r].output_bytes =
                           [format |-> "docx", src |-> content,
                            paragraphs |-> Len(content.pages)]]
                /\ pc' = [pc EXCEPT ![r] = "store"]
                /\ UNCHANGED <<response, records>>
    /\ UNCHANGED <<fs, previews, caught, trace>>

\* lines 158-159
Invalid(r) ==
    /\ pc[r] = "invalid"
    /\ Return(r, [status |-> 400, text |-> "Invalid operation"])
    /\ UNCHANGED <<fs, previews, records, frame, caught, trace>>
\* lines 100-110: output_filename, then the try / except that classifies
Classify(r) ==
    /\ pc[r] = "compress"
    /\ LET name == frame[r].file.filename
           content == fs[name]
       IN  /\ frame' = [frame EXCEPT
                  ![r].output_filename =
                      Replace(name, ".pdf", "_compressed.pdf"),
                  ![r].output_bytes = NoBytes,
                  ![r].pdf = IF content.damage = "none"
                             THEN content ELSE Unbound,
                  ![r].has_vector = HasVector(content)]
           /\ caught' = [caught EXCEPT ![r] = Inspect(content) = "raises"]
           /\ pc' = [pc EXCEPT ![r] =
                        IF HasVector(content) THEN "vector" ELSE "raster"]
    /\ UNCHANGED <<fs, previews, records, response, trace>>

\* lines 111-121: pdf.save into a buffer, twice; pdf is a local that
\* pikepdf.open binds
VectorSave(r) ==
    /\ pc[r] = "vector"
    /\ IF frame[r].pdf = Unbound
       THEN /\ Raise(r, "UnboundLocalError")
            /\ UNCHANGED frame
       ELSE IF frame[r].pdf.unsavable
       THEN /\ Raise(r, "pdf.save")
            /\ UNCHANGED frame
       ELSE /\ frame' = [frame EXCEPT ![r].output_bytes =
                            [format |-> "pdf", strategy |-> "vector",
                             src |-> frame[r].pdf]]
            /\ pc' = [pc EXCEPT ![r] = "serialize"]
            /\ UNCHANGED <<response, records>>
    /\ UNCHANGED <<fs, previews, caught, trace>>

\* line 123 and the loop headers: doc = fitz.open(pdf_path)
RasterOpen(r) ==
    /\ pc[r] = "raster"
    /\ LET content == fs[frame[r].file.filename]
           first == FirstFrom(content.pages, 0)
       IN  IF content.damage = "fatal"
           THEN /\ Raise(r, "fitz.open")
                /\ UNCHANGED frame
           ELSE /\ frame' = [frame EXCEPT
                       ![r].doc = WorkingCopy(content),
                       ![r].page_index = IF first = NoPos THEN @ ELSE first[1],
                       ![r].img_index = IF first = NoPos THEN @ ELSE first[2]]
                /\ pc' = [pc EXCEPT ![r] =
                             IF first = NoPos THEN "serialize" ELSE "image"]
                /\ UNCHANGED <<response, records>>
    /\ UNCHANGED <<fs, previews, caught, trace>>

\* lines 127-150: one pass of the inner loop body, on the image at
\* <<page_index, img_index>>, and the step to the next image
RasterImage(r) ==
    /\ pc[r] = "image"
    /\ LET doc == frame[r].doc
           pages == doc.src.pages
           p == frame[r].page_index
           i == frame[r].img_index
           xref == pages[p + 1].images[i + 1].xref
           image == doc.streams[xref]
           next == NextPos(pages, p, i)
           resized == image.decodes /\ EffectiveDpi(image) > DPI_THRESHOLD
           locals == [frame[r] EXCEPT
                         !.compression = IF image.decodes
                                         THEN Compression(image.mode) ELSE @,
                         !.dpi = IF image.decodes
                                 THEN EffectiveDpi(image) ELSE @,
                         !.new_width = IF resized THEN NewSize(image)[1] ELSE @,
                         !.new_height = IF resized THEN NewSize(image)[2] ELSE @]
       IN  IF ImageError(image) # None
           THEN /\ Raise(r, ImageError(image))
                /\ frame' = [frame EXCEPT ![r] = locals]
                /\ UNCHANGED trace
           ELSE /\ frame' = [frame EXCEPT ![r] =
                       [locals EXCEPT
                           !.doc.streams[xref] = Reencoded(image),
                           !.page_index = IF next = NoPos THEN p ELSE next[1],
                           !.img_index = IF next = NoPos THEN i ELSE next[2]]]
                /\ trace' = [trace EXCEPT ![r] = Append(@, <<p, i, xref>>)]
                /\ pc' = [pc EXCEPT ![r] =
                             IF next = NoPos THEN "serialize" ELSE "image"]
                /\ UNCHANGED <<response, records>>
    /\ UNCHANGED <<fs, previews, caught>>

\* lines 151-155, after the if / else: doc.save(garbage=4, deflate=True);
\* doc is a local that only the else branch binds
Serialize(r) ==
    /\ pc[r] = "serialize"
    /\ IF frame[r].doc = Unbound
       THEN /\ Raise(r, "UnboundLocalError")
            /\ UNCHANGED frame
       ELSE IF frame[r].doc.src.unsavable
       THEN /\ Raise(r, "doc.save")
            /\ UNCHANGED frame
       ELSE /\ frame' = [frame EXCEPT ![r].output_bytes =
                            [format |-> "pdf", strategy |-> "raster",
                             pages |-> Len(frame[r].doc.src.pages),
                             streams |-> frame[r].doc.streams]]
            /\ pc' = [pc EXCEPT ![r] = "store"]
            /\ UNCHANGED <<response, records>>
    /\ UNCHANGED <<fs, previews, caught, trace>>

\* lines 162-175: the record, the commit, the result page
Store(r) ==
    /\ pc[r] = "store"
    /\ records' = Commit(frame[r].output_filename, frame[r].operation,
                         frame[r].output_bytes)
    /\ Return(r, [status |-> 200, template |-> "result.html",
                  filename |-> frame[r].output_filename,
                  operation |-> frame[r].operation,
                  file_id |-> Len(records) + 1])
    /\ UNCHANGED <<fs, previews, frame, caught, trace>>

\* -------------------------------------------- split_final (/split-final)
\* reader.pages[int(p)]: a negative index counts from the end
PageAt(pages, p) ==
    IF p >= 0 /\ p < Len(pages) THEN pages[p + 1]
    ELSE IF p < 0 /\ -p <= Len(pages) THEN pages[Len(pages) + p + 1]
    ELSE [raises |-> "IndexError"]

PageLists == SeqsUpTo(-1..1, 1) \cup {<<1, 0>>}

\* lines 180-208: the selected pages of the file of that name, stored
SplitFinal(r) ==
    /\ MayStart(r)
    /\ \E pdf_name \in Names, pages \in PageLists :
        LET content == fs[pdf_name]
            output_filename == Replace(pdf_name, ".pdf", "_selected.pdf")
            selected == [k \in DOMAIN pages |-> PageAt(content.pages, pages[k])]
        IN  /\ frame' = [frame EXCEPT ![r].operation = "split-final"]
            /\ IF content = NoFile
               THEN Raise(r, "FileNotFoundError")
               ELSE IF content.damage = "fatal"
               THEN Raise(r, "PdfReader")
               ELSE IF \E k \in DOMAIN pages : selected[k] = [raises |-> "IndexError"]
               THEN Raise(r, "IndexError")
               ELSE /\ records' = Commit(output_filename, "split",
                                         [format |-> "pdf",
                                          strategy |-> "selected",
                                          src |-> content,
                                          pages |-> selected])
                    /\ Return(r, [status |-> 200, template |-> "result.html",
                                  filename |-> output_filename,
                                  operation |-> "split",
                                  file_id |-> Len(records) + 1])
    /\ UNCHANGED <<fs, previews, caught, trace>>

\* --------------------------------------------- download (/download/<id>)
FileIds == 1..(NumReqs + 1)

\* lines 212-219: FileRecord.query.get_or_404(file_id), send_file
Download(r) ==
    /\ MayStart(r)
    /\ \E file_id \in FileIds :
        /\ frame' = [frame EXCEPT ![r].operation = "download",
                                  ![r].file_id = file_id]
        /\ IF file_id \in DOMAIN records
           THEN Return(r, [status |-> 200,
                           body |-> records[file_id].file_data,
                           download_name |-> records[file_id].filename])
           ELSE Return(r, [status |-> 404])
    /\ UNCHANGED <<fs, previews, records, caught, trace>>

\* ------------------------------------------------------ specifications
Files(documents) == {Upload(n, c) : n \in Names, c \in documents}

\* concurrent requests to the three routes
Next ==
    \E r \in Reqs :
        \/ Receive(r, Files(SampleDocuments), Operations)
        \/ Split(r)
        \/ Convert(r)
        \/ Invalid(r)
        \/ Classify(r)
        \/ VectorSave(r)
        \/ RasterOpen(r)
        \/ RasterImage(r)
        \/ Serialize(r)
        \/ Store(r)
        \/ SplitFinal(r)
        \/ Download(r)

Spec == Init /\ [][Next]_vars

\* one compress request on any document
NextCompress ==
    \/ Receive(1, {Upload(<<"a", ".pdf">>, c) : c \in Documents}, {"compress"})
    \/ Classify(1)
    \/ VectorSave(1)
    \/ RasterOpen(1)
    \/ RasterImage(1)
    \/ Serialize(1)
    \/ Store(1)

SpecCompress == Init /\ [][NextCompress]_vars

\* one compress request on a scan of one image
NextImage ==
    \/ Receive(1, {Upload(<<"a", ".pdf">>, c) : c \in ImageDocuments},
               {"compress"})
    \/ Classify(1)
    \/ RasterOpen(1)
    \/ RasterImage(1)
    \/ Serialize(1)
    \/ Store(1)

SpecImage == Init /\ [][NextImage]_vars

\* ---------------------------------------------------------------- claims
\* the request is a compress run that has classified its document
Classified(r) ==
    /\ frame[r].operation = "compress"
    /\ pc[r] \in {"vector", "raster", "image", "serialize", "store", "done"}

Uploaded(r) == frame[r].file.content

\* C1: a document classified Vector is handled by the vector strategy
\* alone and the operation completes with that strategy's bytes as its
\* stored result (whenever pdf.save itself succeeds).
C1_VectorCompletes ==
    \A r \in Reqs :
        (Classified(r) /\ pc[r] = "done" /\ frame[r].has_vector
            /\ ~frame[r].pdf.unsavable)
        => /\ response[r].status = 200
           /\ records[response[r].file_id].file_data =
                  [format |-> "pdf", strategy |-> "vector",
                   src |-> frame[r].pdf]

\* C2, as claimed: the document is classified Vector if and only if at
\* least one of its pages exposes a non-empty content stream.
C2_VectorIffSomeStream ==
    \A r \in Reqs :
        Classified(r)
        => (frame[r].has_vector <=>
               \E i \in DOMAIN Uploaded(r).pages :
                   Uploaded(r).pages[i].contents = "stream")

\* C2, amended: the document is classified Vector if and only if it opens
\* and one of its pages exposes a non-empty content stream with no earlier
\* page's inspection raising; every other document is classified Scanned.
C2_VectorIffStreamFoundFirst ==
    \A r \in Reqs :
        Classified(r)
        => (frame[r].has_vector <=>
               /\ Uploaded(r).damage = "none"
               /\ \E i \in DOMAIN Uploaded(r).pages :
                   /\ Uploaded(r).pages[i].contents = "stream"
                   /\ \A j \in 1..(i - 1) :
                          Uploaded(r).pages[j].contents # "raises")

\* a page that raises, then a page with a stream: classified Scanned
C2_Witness ==
    \E r \in Reqs :
        /\ Classified(r)
        /\ ~frame[r].has_vector
        /\ Uploaded(r).damage = "none"
        /\ Len(Uploaded(r).pages) = 2
        /\ Uploaded(r).pages[1].contents = "raises"
        /\ Uploaded(r).pages[2].contents = "stream"

RasterErrors == {"fitz.open", "Image.open", "Image.resize", "Image.save",
                 "doc.save"}

\* C3: when structural inspection raises, the exception is absorbed: the
\* document is classified Scanned, the request goes on to the raster path,
\* and no error of the classification reaches the caller.
C3_InspectionFailureIsScanned ==
    \A r \in Reqs :
        (Classified(r) /\ caught[r])
        => /\ ~frame[r].has_vector
           /\ pc[r] # "vector"
           /\ frame[r].output_bytes.format = "pdf"
                  => frame[r].output_bytes.strategy = "raster"
           /\ pc[r] = "done"
                  => \/ response[r].status = 200
                     \/ response[r].error \in RasterErrors

\* a file pikepdf cannot open, compressed by the raster strategy and stored
C3_Witness ==
    \E r \in Reqs :
        /\ Classified(r) /\ caught[r]
        /\ Uploaded(r).damage = "repairable"
        /\ pc[r] = "done" /\ response[r].status = 200
        /\ Len(trace[r]) > 0

\* C6: a compress run ends either with its complete result stored as one
\* new record, or with an error and no record; until it ends, and whenever
\* it fails after classification, the table is as it was (empty here: the
\* run is the only request).
C6_StoredOrFailed ==
    \A r \in Reqs :
        Classified(r)
        => /\ pc[r] # "done" => records = <<>>
           /\ pc[r] = "done"
                  => \/ /\ response[r].status = 200
                        /\ Len(records) = 1
                        /\ records[1].id = response[r].file_id
                        /\ records[1].file_data = frame[r].output_bytes
                        /\ records[1].file_data.format = "pdf"
                        /\ records[1].file_data.strategy = "raster"
                               => \A x \in DOMAIN records[1].file_data.streams :
                                      records[1].file_data.streams[x].enc # "orig"
                     \/ /\ response[r].status = 500
                        /\ records = <<>>

\* an image that does not decode, after one that was replaced: the run
\* failed and nothing is stored
C6_Witness ==
    \E r \in Reqs :
        /\ Classified(r) /\ pc[r] = "done"
        /\ response[r].status = 500 /\ response[r].error = "Image.open"
        /\ Len(trace[r]) > 0
        /\ records = <<>>

\* the raster loop of request r has run to its end
LoopFinished(r) ==
    /\ Classified(r)
    /\ frame[r].doc # Unbound
    /\ \/ pc[r] \in {"serialize", "store"}
       \/ pc[r] = "done" /\ response[r].status = 200
       \/ pc[r] = "done" /\ response[r].status = 500
              /\ response[r].error = "doc.save"

\* the <<page_index, img_index>> of every image of a file
Positions(content) ==
    UNION {{<<p - 1, i - 1>> : i \in DOMAIN content.pages[p].images} :
              p \in DOMAIN content.pages}

\* C7: once the raster loop has ended, every image of every page has been
\* visited once, in page order and within a page in image order, the
\* stream under each xref is a re-encoded one, and what is serialized is
\* the working copy with all of them replaced.
C7_EveryImageReplacedInOrder ==
    \A r \in Reqs :
        /\ LoopFinished(r)
           => LET src == frame[r].doc.src
                  tr == trace[r]
              IN  /\ {<<tr[k][1], tr[k][2]>> : k \in DOMAIN tr} = Positions(src)
                  /\ \A k \in DOMAIN tr :
                         tr[k][3] = src.pages[tr[k][1] + 1].images[tr[k][2] + 1].xref
                  /\ \A k \in 1..(Len(tr) - 1) :
                         \/ tr[k][1] < tr[k + 1][1]
                         \/ tr[k][1] = tr[k + 1][1] /\ tr[k][2] < tr[k + 1][2]
                  /\ DOMAIN frame[r].doc.streams =
                         {im.xref : im \in Images(src)}
                  /\ \A x \in DOMAIN frame[r].doc.streams :
                         /\ frame[r].doc.streams[x].enc \in {"CCITT", "JPEG"}
                         /\ frame[r].doc.streams[x].xref = x
        /\ (Classified(r) /\ frame[r].output_bytes.format = "pdf"
                /\ frame[r].output_bytes.strategy = "raster")
           => /\ LoopFinished(r)
              /\ frame[r].output_bytes.streams = frame[r].doc.streams
              /\ frame[r].output_bytes.pages = Len(frame[r].doc.src.pages)

\* a scan of two pages and three images, compressed and stored
C7_Witness ==
    \E r \in Reqs :
        /\ LoopFinished(r) /\ pc[r] = "done" /\ response[r].status = 200
        /\ Len(frame[r].doc.src.pages) = 2
        /\ Len(trace[r]) = 3
\* ------------------------------------------- claims on the image transform
\* the image as uploaded that the file holds under xref x
Original(r, x) == CHOOSE image \in Images(Uploaded(r)) : image.xref = x

Replaced(r) ==
    IF frame[r].doc = Unbound THEN {}
    ELSE {x \in DOMAIN frame[r].doc.streams :
             frame[r].doc.streams[x].enc # "orig"}

\* the resolution the claims call effective: the declared one, else 150
Declared(image) == IF image.dpi = NoDpi THEN 150 ELSE image.dpi[1]

\* C4: the encoding chosen for an image follows from its color mode alone:
\* group-4 for bilevel, quality-85 JPEG for grayscale and every other
\* mode, whatever its resolution and size and whether it was resized.
C4_EncodingByModeAlone ==
    \A r \in Reqs :
        /\ \A x \in Replaced(r) :
               LET out == frame[r].doc.streams[x]
               IN  IF Original(r, x).mode = "1"
                   THEN out.enc = "CCITT"
                   ELSE out.enc = "JPEG" /\ out.quality = 85
        /\ (Classified(r) /\ frame[r].compression # None)
           => \E image \in Images(Uploaded(r)) :
                  frame[r].compression =
                      IF image.mode = "1" THEN "CCITT" ELSE "JPEG"

\* a bilevel image that was downsampled, and is stored group-4 encoded
C4_Witness ==
    \E r \in Reqs : \E x \in Replaced(r) :
        /\ Original(r, x).mode = "1"
        /\ Declared(Original(r, x)) = 300
        /\ frame[r].doc.streams[x].width < Original(r, x).width
        /\ frame[r].doc.streams[x].enc = "CCITT"

\* C5: an image of effective DPI d <= 200 keeps its size (w, h); one of
\* d > 200 is saved at (floor(w * 150 / d), floor(h * 150 / d)).
C5_OutputDimensions ==
    \A r \in Reqs : \A x \in Replaced(r) :
        LET image == Original(r, x)
            out == frame[r].doc.streams[x]
            d == Declared(image)
        IN  IF d <= 200
            THEN out.width = image.width /\ out.height = image.height
            ELSE /\ out.width = (image.width * 150) \div d
                 /\ out.height = (image.height * 150) \div d

\* C10: whenever an image is downsampled, both target dimensions handed to
\* the resize are at least 1.
C10_TargetAtLeastOnePixel ==
    \A r \in Reqs :
        (Classified(r) /\ frame[r].dpi > DPI_THRESHOLD)
        => frame[r].new_width >= 1 /\ frame[r].new_height >= 1

\* ------------------------------------------- claims on concurrent requests
\* C8: what a request opens and processes is the document it uploaded: an
\* upload by another request does not change it.
C8_ProcessesOwnUpload ==
    \A r \in Reqs :
        /\ frame[r].pdf # Unbound => frame[r].pdf = Uploaded(r)
        /\ frame[r].doc # Unbound => frame[r].doc.src = Uploaded(r)
        /\ frame[r].output_bytes.format = "docx"
               => frame[r].output_bytes.src = Uploaded(r)

Ids(table) == {table[i].id : i \in DOMAIN table}

\* request r returns in this step
Returns(r) == pc[r] # "done" /\ pc'[r] = "done"

\* C9: the table only grows, by one record with a fresh id at a time; a
\* convert, compress or split-final run that succeeds adds exactly one
\* record, whose id it answers, and no other step adds, changes or
\* removes one; a download answers the bytes and name of the record of
\* that id, or 404 when no record has it, and changes nothing.
C9_Step ==
    /\ Len(records') \in {Len(records), Len(records) + 1}
    /\ SubSeq(records', 1, Len(records)) = records
    /\ Len(records') = Len(records) + 1
           => records'[Len(records')].id \notin Ids(records)
    /\ \A r \in Reqs :
           Returns(r) =>
               IF frame'[r].operation = "download"
               THEN /\ records' = records /\ fs' = fs /\ previews' = previews
                    /\ IF frame'[r].file_id \in Ids(records)
                       THEN \E i \in DOMAIN records :
                              /\ records[i].id = frame'[r].file_id
                              /\ response'[r].status = 200
                              /\ response'[r].body = records[i].file_data
                              /\ response'[r].download_name = records[i].filename
                       ELSE response'[r].status = 404
               ELSE IF /\ frame'[r].operation \in
                              {"convert", "compress", "split-final"}
                       /\ response'[r].status = 200
               THEN /\ Len(records') = Len(records) + 1
                    /\ records'[Len(records')].id = response'[r].file_id
                    /\ records'[Len(records')].filename = response'[r].filename
               ELSE records' = records
    /\ (\A r \in Reqs : ~Returns(r)) => records' = records

\* C9: every step of every behaviour keeps the record store append-only
\* and answers downloads from it, as C9_Step states.
C9_AppendOnly == [][C9_Step]_vars

\* two records stored, and the first one downloaded
C9_Witness ==
    \E r \in Reqs :
        /\ pc[r] = "done"
        /\ frame[r].operation = "download"
        /\ response[r].status = 200
        /\ response[r].body = records[frame[r].file_id].file_data
====
